---- MODULE Spec2Model ----
(***************************************************************************)
(* Circular singly-linked ring (src/LinkedList.h) and the driver that uses *)
(* three instances of it (src/main.cpp).                                   *)
(*                                                                         *)
(* The heap is a partial function from node addresses to node contents:    *)
(* its domain is the set of nodes that have been created by `new` and not  *)
(* yet released by `delete`.  Reading a released node is therefore an      *)
(* evaluation error of the model, never a silently chosen value, and       *)
(* handing a released node to `delete` a second time raises fault.         *)
(*                                                                         *)
(* Every method of LinkedList is an operator from a program state (a       *)
(* record of the heap and the three fields of every ring) to the program   *)
(* state after the call, written assignment by assignment in the order of  *)
(* the source so that calls with aliased arguments mean what the code      *)
(* means.  The actions of the specification apply these operators.         *)
(***************************************************************************)
EXTENDS Integers, Sequences, FiniteSets, TLC

VARIABLES heap, head_, tail_, sz_, fault, nextId, last

vars == <<heap, head_, tail_, sz_, fault, nextId, last>>

\* ------------------------------------------------------------------ bounds
\* Number of node addresses the allocator can hand out at the same time.
MaxNodes == 5
\* Number of those addresses in use when every operation may be applied to
\* every ring (specification Spec).
MaxSmall == 3
\* Number of consecutive rotations compared with pop_front and append.
MaxRot == 4
\* Number of robots added to the working ring before it is drained
\* (specification SpecDrain).
MaxRobots == 3
\* Number of robots added when robots are also paused and resumed and may
\* join at any time (specification SpecSim).
MaxSimRobots == 3
\* Largest battery level a robot is given.
MaxBattery == 2
\* Largest number of turns asked for in one choice 3 of the menu.
MaxTurns == 3

\* --------------------------------------------------------------- constants
NULL == 0

Nodes == 1..MaxNodes

SmallNodes == 1..MaxSmall

\* The element type.  The ring never inspects an element, so two element
\* values are enough to tell any two positions of a sequence apart.
T == {"x", "y"}

Rings == {"ring", "a", "b"}

\* ------------------------------------------------------------ program state
\* The current program state as one record.
Cur == [heap |-> heap, head_ |-> head_, tail_ |-> tail_, sz_ |-> sz_,
        fault |-> fault, nextId |-> nextId]

\* Addresses `new` may return: those not currently allocated.
FreeNodes(st) == Nodes \ DOMAIN st.heap

\* new Node(value): data(v), next(nullptr), at address n.
NewNode(st, n, v) ==
    [st EXCEPT !.heap = [m \in (DOMAIN st.heap) \cup {n} |->
                            IF m = n THEN [data |-> v, next |-> NULL]
                                     ELSE st.heap[m]]]

\* delete n: the node leaves the heap.  Releasing a node that is not
\* allocated (a second release) has no defined outcome: fault records it.
DeleteNode(st, n) ==
    [st EXCEPT !.heap = [m \in (DOMAIN st.heap) \ {n} |-> st.heap[m]],
               !.fault = @ \/ (n # NULL /\ n \notin DOMAIN st.heap)]

empty(st, self) == st.head_[self] = NULL

size(st, self) == st.sz_[self]

make_single(st, self, n) ==
    LET s1 == [st EXCEPT !.heap[n].next = n]
        s2 == [s1 EXCEPT !.tail_[self] = n]
        s3 == [s2 EXCEPT !.head_[self] = n]
    IN  [s3 EXCEPT !.sz_[self] = 1]

\* An append that links the node in but leaves tail_ on the old tail.
append_keeps_tail(st, self, v, n) ==
    LET s0 == NewNode(st, n, v)
    IN  IF s0.head_[self] = NULL
        THEN make_single(s0, self, n)
        ELSE LET s1 == [s0 EXCEPT !.heap[n].next = s0.head_[self]]
                 s2 == [s1 EXCEPT !.heap[s1.tail_[self]].next = n]
             IN  [s2 EXCEPT !.sz_[self] = @ + 1]

\* append(value), the node being allocated at address n.
append(st, self, v, n) ==
    LET s0 == NewNode(st, n, v)
    IN  IF s0.head_[self] = NULL
        THEN make_single(s0, self, n)
        ELSE LET s1 == [s0 EXCEPT !.heap[n].next = s0.head_[self]]
                 s2 == [s1 EXCEPT !.heap[s1.tail_[self]].next = n]
                 s3 == [s2 EXCEPT !.tail_[self] = n]
             IN  [s3 EXCEPT !.sz_[self] = @ + 1]

\* An append that counts the element before it creates the node.
append_throws_counted(st, self, v) == [st EXCEPT !.sz_[self] = @ + 1]

\* append(value) when new Node(value) throws: control leaves append from its
\* first statement.
append_throws(st, self, v) == st

\* pop_front() on a single node that forgets to reset the cached size.
pop_front_single_keeps_size(st, self) ==
    LET old == st.head_[self]
        s1 == DeleteNode(st, old)
        s2 == [s1 EXCEPT !.tail_[self] = NULL]
    IN  [s2 EXCEPT !.head_[self] = NULL]

\* pop_front(), the ring holding a single node.
pop_front_single(st, self) ==
    LET old == st.head_[self]
        s1 == DeleteNode(st, old)
        s2 == [s1 EXCEPT !.tail_[self] = NULL]
        s3 == [s2 EXCEPT !.head_[self] = NULL]
    IN  [s3 EXCEPT !.sz_[self] = 0]

\* pop_front() on two nodes or more that forgets to count the node down.
pop_front_many_keeps_size(st, self) ==
    LET old == st.head_[self]
        s1 == [st EXCEPT !.head_[self] = st.heap[st.head_[self]].next]
        s2 == [s1 EXCEPT !.heap[s1.tail_[self]].next = s1.head_[self]]
    IN  DeleteNode(s2, old)

\* pop_front(), the ring holding two nodes or more.
pop_front_many(st, self) ==
    LET old == st.head_[self]
        s1 == [st EXCEPT !.head_[self] = st.heap[st.head_[self]].next]
        s2 == [s1 EXCEPT !.heap[s1.tail_[self]].next = s1.head_[self]]
        s3 == DeleteNode(s2, old)
    IN  [s3 EXCEPT !.sz_[self] = @ - 1]

\* A pop_front() that reports success on an empty ring.
pop_front_always_true(st, self) ==
    IF st.head_[self] = NULL
    THEN [st |-> st, ret |-> TRUE]
    ELSE IF st.head_[self] = st.tail_[self]
    THEN [st |-> pop_front_single(st, self), ret |-> TRUE]
    ELSE [st |-> pop_front_many(st, self), ret |-> TRUE]

\* pop_front(): the state after the call and the value returned.
pop_front(st, self) ==
    IF st.head_[self] = NULL
    THEN [st |-> st, ret |-> FALSE]
    ELSE IF st.head_[self] = st.tail_[self]
    THEN [st |-> pop_front_single(st, self), ret |-> TRUE]
    ELSE [st |-> pop_front_many(st, self), ret |-> TRUE]

\* A rotate that advances head_ and leaves tail_ behind.
rotate_head_only(st, self) ==
    IF st.head_[self] = NULL \/ st.head_[self] = st.tail_[self]
    THEN st
    ELSE [st EXCEPT !.head_[self] = st.heap[st.head_[self]].next]

rotate(st, self) ==
    IF st.head_[self] = NULL \/ st.head_[self] = st.tail_[self]
    THEN st
    ELSE LET s1 == [st EXCEPT !.head_[self] = st.heap[st.head_[self]].next]
         IN  [s1 EXCEPT !.tail_[self] = s1.heap[s1.tail_[self]].next]

\* front(): the element of the head node (the ring is assumed non-empty).
front(st, self) == st.heap[st.head_[self]].data

\* The loop of display() and of forEach(): what is handed out when sz nodes
\* are visited starting at cur, the i-th visit followed by the separator when
\* sep is set and another visit follows.
RECURSIVE visit_loop(_, _, _, _, _)
visit_loop(st, cur, i, sz, sep) ==
    IF i < sz
    THEN <<st.heap[cur].data>>
         \o (IF sep /\ i + 1 < sz THEN <<" -> ">> ELSE << >>)
         \o visit_loop(st, st.heap[cur].next, i + 1, sz, sep)
    ELSE << >>

\* display(): the pieces written to the stream, in order.
display(st, self) ==
    IF st.head_[self] = NULL
    THEN <<"[] (empty)">>
    ELSE <<"[">> \o visit_loop(st, st.head_[self], 0, st.sz_[self], TRUE)
               \o <<"] (circular)">>

\* A forEach that starts its walk at the tail.
forEach_from_tail(st, self) ==
    IF st.head_[self] = NULL
    THEN << >>
    ELSE visit_loop(st, st.tail_[self], 0, st.sz_[self], FALSE)

\* forEach(f): the arguments of the calls of f, in order.
forEach(st, self) ==
    IF st.head_[self] = NULL
    THEN << >>
    ELSE visit_loop(st, st.head_[self], 0, st.sz_[self], FALSE)

\* The loop of clear(): release sz nodes starting at cur.
RECURSIVE clear_loop(_, _, _, _)
clear_loop(st, cur, i, sz) ==
    IF i < sz
    THEN LET nxt == st.heap[cur].next
         IN  clear_loop(DeleteNode(st, cur), nxt, i + 1, sz)
    ELSE st

\* A clear() whose loop stops one node short: the last node stays allocated.
clear_leaves_one(st, self) ==
    IF st.head_[self] = NULL
    THEN st
    ELSE LET s1 == clear_loop(st, st.head_[self], 1, st.sz_[self])
             s2 == [s1 EXCEPT !.tail_[self] = NULL]
             s3 == [s2 EXCEPT !.head_[self] = NULL]
         IN  [s3 EXCEPT !.sz_[self] = 0]

clear(st, self) ==
    IF st.head_[self] = NULL
    THEN st
    ELSE LET s1 == clear_loop(st, st.head_[self], 0, st.sz_[self])
             s2 == [s1 EXCEPT !.tail_[self] = NULL]
             s3 == [s2 EXCEPT !.head_[self] = NULL]
         IN  [s3 EXCEPT !.sz_[self] = 0]

\* A destructor that releases nothing.
destructor_empty(st, self) == st

\* ~LinkedList().
destructor(st, self) == clear(st, self)

\* The condition of the slow/fast loop of splitIntoTwo.
split_cond(st, self, fast) ==
    /\ st.heap[fast].next # st.head_[self]
    /\ st.heap[st.heap[fast].next].next # st.head_[self]

\* A loop body that moves fast on and leaves slow where it is.
split_step_slow_stays(st, slow, fast) ==
    <<slow, st.heap[st.heap[fast].next].next>>

\* The body of the loop: slow moves one node on, fast two.
split_step(st, slow, fast) ==
    <<st.heap[slow].next, st.heap[st.heap[fast].next].next>>

\* The slow/fast loop of splitIntoTwo: the pair <<slow, fast>> at loop exit.
RECURSIVE split_walk(_, _, _, _)
split_walk(st, self, slow, fast) ==
    IF split_cond(st, self, fast)
    THEN LET w == split_step(st, slow, fast)
         IN  split_walk(st, self, w[1], w[2])
    ELSE <<slow, fast>>

\* splitIntoTwo, the receiver holding a single node.
split_single(st, self, first) ==
    LET s1 == [st EXCEPT !.head_[first] = st.head_[self]]
        s2 == [s1 EXCEPT !.tail_[first] = s1.tail_[self]]
        s3 == [s2 EXCEPT !.sz_[first] = 1]
        s4 == [s3 EXCEPT !.heap[s3.tail_[first]].next = s3.head_[first]]
        s5 == [s4 EXCEPT !.tail_[self] = NULL]
        s6 == [s5 EXCEPT !.head_[self] = NULL]
    IN  [s6 EXCEPT !.sz_[self] = 0]

\* The step after the loop left out: fast stays where the loop left it.
split_adjust_none(st, self, fast) == fast

\* The step after the loop: on an even length fast moves on to the true tail.
split_adjust(st, self, fast) ==
    IF st.heap[st.heap[fast].next].next = st.head_[self]
    THEN st.heap[fast].next
    ELSE fast

\* The first output ring given the smaller half.
split_n1_floor(sz) == sz \div 2

\* The size given to the first output ring.
split_n1(sz) == (sz + 1) \div 2

\* splitIntoTwo, the receiver holding two nodes or more.
split_many(st, self, first, second) ==
    LET w     == split_walk(st, self, st.head_[self], st.head_[self])
        slow  == w[1]
        fast  == split_adjust(st, self, w[2])
        head1 == st.head_[self]
        tail1 == slow
        head2 == st.heap[slow].next
        tail2 == fast
        s1 == [st EXCEPT !.heap[tail1].next = head1]
        s2 == [s1 EXCEPT !.heap[tail2].next = head2]
        n1 == split_n1(s2.sz_[self])
        n2 == s2.sz_[self] - n1
        s3 == [s2 EXCEPT !.head_[first] = head1]
        s4 == [s3 EXCEPT !.tail_[first] = tail1]
        s5 == [s4 EXCEPT !.sz_[first] = n1]
        s6 == [s5 EXCEPT !.head_[second] = head2]
        s7 == [s6 EXCEPT !.tail_[second] = tail2]
        s8 == [s7 EXCEPT !.sz_[second] = n2]
        s9 == [s8 EXCEPT !.tail_[self] = NULL]
        s10 == [s9 EXCEPT !.head_[self] = NULL]
    IN  [s10 EXCEPT !.sz_[self] = 0]

\* A splitIntoTwo that returns on an empty receiver before it has cleared the
\* two output rings.
splitIntoTwo_returns_first(st, self, first, second) ==
    IF st.head_[self] = NULL
    THEN st
    ELSE LET c1 == clear(st, first)
             c2 == clear(c1, second)
         IN  IF c2.sz_[self] = 1
             THEN split_single(c2, self, first)
             ELSE split_many(c2, self, first, second)

splitIntoTwo(st, self, first, second) ==
    LET c1 == clear(st, first)
        c2 == clear(c1, second)
    IN  IF c2.head_[self] = NULL
        THEN c2
        ELSE IF c2.sz_[self] = 1
        THEN split_single(c2, self, first)
        ELSE split_many(c2, self, first, second)

\* An adoption that leaves other pointing at the nodes it gave away.
merge_adopt_keeps_other(st, self, other) ==
    LET s1 == [st EXCEPT !.head_[self] = st.head_[other]]
        s2 == [s1 EXCEPT !.tail_[self] = s1.tail_[other]]
    IN  [s2 EXCEPT !.sz_[self] = s2.sz_[other]]

\* mergeWith, the receiver being empty: it takes over the nodes of other.
merge_adopt(st, self, other) ==
    LET s1 == [st EXCEPT !.head_[self] = st.head_[other]]
        s2 == [s1 EXCEPT !.tail_[self] = s1.tail_[other]]
        s3 == [s2 EXCEPT !.sz_[self] = s2.sz_[other]]
        s4 == [s3 EXCEPT !.tail_[other] = NULL]
        s5 == [s4 EXCEPT !.head_[other] = NULL]
    IN  [s5 EXCEPT !.sz_[other] = 0]

\* A splice that leaves tail_ on the old tail of the receiver.
merge_splice_keeps_tail(st, self, other) ==
    LET aHead == st.head_[self]
        bHead == st.head_[other]
        s1 == [st EXCEPT !.heap[st.tail_[self]].next = bHead]
        s2 == [s1 EXCEPT !.heap[s1.tail_[other]].next = aHead]
        s4 == [s2 EXCEPT !.sz_[self] = @ + s2.sz_[other]]
        s5 == [s4 EXCEPT !.tail_[other] = NULL]
        s6 == [s5 EXCEPT !.head_[other] = NULL]
    IN  [s6 EXCEPT !.sz_[other] = 0]

\* mergeWith, both rings being non-empty: other is spliced after the tail.
merge_splice(st, self, other) ==
    LET aHead == st.head_[self]
        bHead == st.head_[other]
        s1 == [st EXCEPT !.heap[st.tail_[self]].next = bHead]
        s2 == [s1 EXCEPT !.heap[s1.tail_[other]].next = aHead]
        s3 == [s2 EXCEPT !.tail_[self] = s2.tail_[other]]
        s4 == [s3 EXCEPT !.sz_[self] = @ + s3.sz_[other]]
        s5 == [s4 EXCEPT !.tail_[other] = NULL]
        s6 == [s5 EXCEPT !.head_[other] = NULL]
    IN  [s6 EXCEPT !.sz_[other] = 0]

mergeWith(st, self, other) ==
    IF empty(st, other)
    THEN st
    ELSE IF empty(st, self)
    THEN merge_adopt(st, self, other)
    ELSE merge_splice(st, self, other)

\* main, choice 6 (the displays print and change nothing).
option6(st) ==
    LET s1 == clear(st, "a")
        s2 == clear(s1, "b")
    IN  splitIntoTwo(s2, "ring", "a", "b")

\* Choice 7 with the two halves merged the other way round.
option7_swapped(st) ==
    LET s1 == mergeWith(st, "b", "a")
    IN  mergeWith(s1, "ring", "b")

\* main, choice 7.
option7(st) ==
    LET s1 == mergeWith(st, "a", "b")
    IN  mergeWith(s1, "ring", "a")

\* ------------------------------------------------------------- the simulation
\* The robots of main.cpp are the elements of the working ring.  The name of
\* a robot is only ever printed and is left out; the running totals score
\* and ticks are only ever added to and printed and are left out as well.
quantum == 1

\* Robot(id, name, b, d): paused takes its default.
Robot(id, b, d) == [id |-> id, battery |-> b, drain |-> d, paused |-> FALSE]

\* addRobot with the battery level read from the input, the node being
\* allocated at address n.
addRobot(st, ring, bat, n) ==
    LET s1 == [st EXCEPT !.nextId = @ + 1]
    IN  append(s1, ring, Robot(st.nextId, bat, quantum), n)

\* A turn that drains nothing.
drain_none(st, cur) == st

\* cur.battery -= cur.drain, cur being a node.
drain(st, cur) ==
    [st EXCEPT !.heap[cur].data.battery = @ - st.heap[cur].data.drain]

\* A turn that rotates the ring after it has removed the head robot.
runOneTurn_rotates_after_removal(st, ring) ==
    IF size(st, ring) = 0
    THEN [st |-> st, ret |-> 0]
    ELSE LET cur == st.head_[ring]
         IN  IF st.heap[cur].data.paused
             THEN [st |-> rotate(st, ring), ret |-> 1]
             ELSE LET s1 == drain(st, cur)
                  IN  IF s1.heap[cur].data.battery <= 0
                      THEN [st |-> rotate(pop_front(s1, ring).st, ring),
                            ret |-> 1 + 3]
                      ELSE [st |-> rotate(s1, ring), ret |-> 1]

\* runOneTurn(ring): the state after the call and the value returned.
runOneTurn(st, ring) ==
    IF size(st, ring) = 0
    THEN [st |-> st, ret |-> 0]
    ELSE LET cur == st.head_[ring]
         IN  IF st.heap[cur].data.paused
             THEN [st |-> rotate(st, ring), ret |-> 1]
             ELSE LET s1 == drain(st, cur)
                  IN  IF s1.heap[cur].data.battery <= 0
                      THEN [st |-> pop_front(s1, ring).st, ret |-> 1 + 3]
                      ELSE [st |-> rotate(s1, ring), ret |-> 1]

\* The loop of togglePauseById from its i-th round on.
RECURSIVE toggle_loop(_, _, _, _)
toggle_loop(st, ring, id, i) ==
    IF i < size(st, ring)
    THEN IF front(st, ring).id = id
         THEN [st EXCEPT !.heap[st.head_[ring]].data.paused = ~@]
         ELSE toggle_loop(rotate(st, ring), ring, id, i + 1)
    ELSE st

togglePauseById(st, ring, id) ==
    IF size(st, ring) = 0
    THEN st
    ELSE toggle_loop(st, ring, id, 0)

\* main, choice 2.
option2(st) == runOneTurn(st, "ring")

\* A choice 3 whose loop does not look at the size of the ring.
option3_cond_counts_only(st, i, n) == i < n

\* main, choice 3: the condition of the loop.
option3_cond(st, i, n) == i < n /\ size(st, "ring") > 0

\* main, choice 3: the loop from its i-th round on.  calls lists, for every
\* call of runOneTurn made so far, the size of the ring when it was made, the
\* id of the robot at the head then (0 when there was none) and the value
\* returned.
RECURSIVE option3_loop(_, _, _, _)
option3_loop(st, i, n, calls) ==
    IF option3_cond(st, i, n)
    THEN LET r == runOneTurn(st, "ring")
             c == [size |-> size(st, "ring"),
                   id |-> IF st.head_["ring"] = NULL THEN 0
                          ELSE front(st, "ring").id,
                   ret |-> r.ret]
         IN  option3_loop(r.st, i + 1, n, Append(calls, c))
    ELSE [st |-> st, calls |-> calls]

option3(st, n) == option3_loop(st, 0, n, << >>)

\* main, choice 4.
option4(st, id) == togglePauseById(st, "ring", id)

\* ------------------------------------------------------------ observations
\* The successor of node n, NULL when n is not an allocated node.
Succ(st, n) == IF n \in DOMAIN st.heap THEN st.heap[n].next ELSE NULL

\* The node reached from n by following next k times.
RECURSIVE Nth(_, _, _)
Nth(st, n, k) == IF k = 0 THEN n ELSE Nth(st, Succ(st, n), k - 1)

\* The nodes met by following next from n, seen being those already met.
RECURSIVE ReachFrom(_, _, _)
ReachFrom(st, n, seen) ==
    IF n = NULL \/ n \in seen THEN seen
    ELSE ReachFrom(st, Succ(st, n), seen \cup {n})

\* The nodes reachable from the head of a ring by following next.
Reach(st, self) == ReachFrom(st, st.head_[self], {})

\* The nodes met from cur up to and including stop, following next at most
\* fuel times.
RECURSIVE Walk(_, _, _, _)
Walk(st, cur, stop, fuel) ==
    IF cur = stop \/ fuel = 0 \/ cur \notin DOMAIN st.heap
    THEN <<cur>>
    ELSE <<cur>> \o Walk(st, st.heap[cur].next, stop, fuel - 1)

\* The nodes of a ring from its head to its tail.
NodeSeq(st, self) ==
    IF st.head_[self] = NULL THEN << >>
    ELSE Walk(st, st.head_[self], st.tail_[self], MaxNodes)

\* The head-to-tail sequence of elements of a ring.
Elems(st, self) ==
    LET ns == NodeSeq(st, self)
    IN  [i \in 1..Len(ns) |->
            IF ns[i] \in DOMAIN st.heap THEN st.heap[ns[i]].data ELSE "released"]

\* ------------------------------------------------------------------ actions
\* The program moves to state st.
Becomes(st) ==
    /\ heap' = st.heap
    /\ head_' = st.head_
    /\ tail_' = st.tail_
    /\ sz_' = st.sz_
    /\ fault' = st.fault
    /\ nextId' = st.nextId

\* The call the program has just completed: its name, its arguments, the value
\* it returned (FALSE for a call that returns nothing), and the program state
\* in which it was made.  chained is TRUE only for a choice 7 of the menu that
\* directly follows a choice 6, and pre is then the state before that choice 6.
\* out is what a call that only reads the ring handed out, in order.  n and
\* delta are the number typed in at the menu of the simulation and the number
\* runOneTurn returned, 0 for every other call.
Completed(op, self, first, second, v, ret, chained, out, pre) ==
    [op |-> op, self |-> self, first |-> first, second |-> second, v |-> v,
     ret |-> ret, chained |-> chained, out |-> out, pre |-> pre,
     n |-> 0, delta |-> 0]

Init ==
    /\ heap = << >>
    /\ head_ = [r \in Rings |-> NULL]
    /\ tail_ = [r \in Rings |-> NULL]
    /\ sz_ = [r \in Rings |-> 0]
    /\ fault = FALSE
    /\ nextId = 1
    /\ last = Completed("init", "ring", "ring", "ring", "x", FALSE, FALSE, << >>, Cur)

AppendCall(self, v) ==
    \E n \in FreeNodes(Cur) \cap SmallNodes :
        /\ Becomes(append(Cur, self, v, n))
        /\ last' = Completed("append", self, self, self, v, FALSE, FALSE, << >>, Cur)

PopFrontCall(self) ==
    LET r == pop_front(Cur, self)
    IN  /\ Becomes(r.st)
        /\ last' = Completed("pop_front", self, self, self, "x", r.ret, FALSE, << >>, Cur)

RotateCall(self) ==
    /\ Becomes(rotate(Cur, self))
    /\ last' = Completed("rotate", self, self, self, "x", FALSE, FALSE, << >>, Cur)

ClearCall(self) ==
    /\ Becomes(clear(Cur, self))
    /\ last' = Completed("clear", self, self, self, "x", FALSE, FALSE, << >>, Cur)

SplitCall(self, first, second) ==
    /\ self # first /\ self # second /\ first # second
    /\ Becomes(splitIntoTwo(Cur, self, first, second))
    /\ last' = Completed("splitIntoTwo", self, first, second, "x", FALSE, FALSE, << >>, Cur)

MergeCall(self, other) ==
    /\ self # other
    /\ Becomes(mergeWith(Cur, self, other))
    /\ last' = Completed("mergeWith", self, other, other, "x", FALSE, FALSE, << >>, Cur)

\* Every operation of the ring, applied to any of the three rings, the ring
\* arguments of one call being distinct.
Next ==
    \/ \E self \in Rings, v \in T : AppendCall(self, v)
    \/ \E self \in Rings : PopFrontCall(self)
    \/ \E self \in Rings : RotateCall(self)
    \/ \E self \in Rings : ClearCall(self)
    \/ \E self, first, second \in Rings : SplitCall(self, first, second)
    \/ \E self, other \in Rings : MergeCall(self, other)

Spec == Init /\ [][Next]_vars

\* main, choice 1: a new element is appended to the working ring.  Here the
\* allocator is a first-fit one, handing out the least unused address; Spec
\* lets it hand out any unused address.
Option1(v) ==
    \E n \in FreeNodes(Cur) :
        /\ \A m \in FreeNodes(Cur) : n <= m
        /\ Becomes(append(Cur, "ring", v, n))
        /\ last' = Completed("option1", "ring", "ring", "ring", v, FALSE, FALSE, << >>, Cur)

\* main, choice 6: split the working ring into a and b.
Option6 ==
    /\ Becomes(option6(Cur))
    /\ last' = Completed("option6", "ring", "a", "b", "x", FALSE, FALSE, << >>, Cur)

\* main, choice 7: merge b into a, then a back into the working ring.
Option7 ==
    /\ Becomes(option7(Cur))
    /\ last' = IF last.op = "option6"
               THEN Completed("option7", "ring", "a", "b", "x", FALSE, TRUE, << >>, last.pre)
               ELSE Completed("option7", "ring", "a", "b", "x", FALSE, FALSE, << >>, Cur)

\* The menu of main restricted to the choices that build, split and merge
\* rings.
NextMenu ==
    \/ \E v \in T : Option1(v)
    \/ Option6
    \/ Option7

SpecMenu == Init /\ [][NextMenu]_vars

\* The working ring is built and split, and built again.
NextSplit ==
    \/ \E v \in T : Option1(v)
    \/ Option6

SpecSplit == Init /\ [][NextSplit]_vars

\* The calls that only read a ring.  Both methods are const: the state after
\* the call is the state before it.
ForEachCall(self) ==
    /\ Becomes(Cur)
    /\ last' = Completed("forEach", self, self, self, "x", FALSE, FALSE,
                         forEach(Cur, self), Cur)

DisplayCall(self) ==
    /\ Becomes(Cur)
    /\ last' = Completed("display", self, self, self, "x", FALSE, FALSE,
                         display(Cur, self), Cur)

NextRead ==
    \/ Next
    \/ \E self \in Rings : ForEachCall(self)
    \/ \E self \in Rings : DisplayCall(self)

\* Every operation of a ring, the two that only read it included.
SpecRead == Init /\ [][NextRead]_vars

\* main returns: its rings are destroyed in the reverse order of their
\* declaration, b, then a, then the working ring, and nothing is called on a
\* ring after that.
Destroyed(self) == last.op = "~LinkedList" /\ last.self = self

Ending == \E r \in Rings : Destroyed(r)

DestroyCall(self) ==
    /\ \/ self = "b" /\ ~Ending
       \/ self = "a" /\ Destroyed("b")
       \/ self = "ring" /\ Destroyed("a")
    /\ Becomes(destructor(Cur, self))
    /\ last' = Completed("~LinkedList", self, self, self, "x", FALSE, FALSE, << >>, Cur)

NextLife ==
    \/ ~Ending /\ Next
    \/ \E self \in Rings : DestroyCall(self)

\* Any sequence of operations on the three rings, then their destruction.
SpecLife == Init /\ [][NextLife]_vars

\* new Node(value) fails.  It may fail at any time, and it does when no
\* address is left; the caller catches the exception and goes on.
AppendThrows(self, v) ==
    /\ Becomes(append_throws(Cur, self, v))
    /\ last' = Completed("append throws", self, self, self, v, FALSE, FALSE, << >>, Cur)

NextAlloc ==
    \/ Next
    \/ \E self \in Rings, v \in T : AppendThrows(self, v)

\* The operations of a ring with an allocator that can fail.
SpecAlloc == Init /\ [][NextAlloc]_vars

\* Calls whose ring arguments are not distinct: x.mergeWith(x), and
\* r.splitIntoTwo(first, second) with two of r, first and second the same
\* ring.  The methods take references and compare none of them.
AliasedMergeCall(self) ==
    /\ Becomes(mergeWith(Cur, self, self))
    /\ last' = Completed("mergeWith", self, self, self, "x", FALSE, FALSE, << >>, Cur)

AliasedSplitCall(self, first, second) ==
    /\ self = first \/ self = second \/ first = second
    /\ Becomes(splitIntoTwo(Cur, self, first, second))
    /\ last' = Completed("splitIntoTwo", self, first, second, "x", FALSE, FALSE, << >>, Cur)

NextAlias ==
    \/ \E self \in Rings, v \in T : AppendCall(self, v)
    \/ \E self \in Rings : PopFrontCall(self)
    \/ \E self \in Rings : AliasedMergeCall(self)
    \/ \E self, first, second \in Rings : AliasedSplitCall(self, first, second)

\* Rings built by append and pop_front, then merged and split with ring
\* arguments that are the same ring.
SpecAlias == Init /\ [][NextAlias]_vars

\* The battery levels and the ids typed in at the menu.
Batteries == 0..MaxBattery

\* The two ends of that range: a robot that leaves on its first turn, with a
\* battery below 0, and one that lasts MaxBattery turns and leaves at 0.
SimBatteries == {0, MaxBattery}

Ids == 0..MaxSimRobots

\* main, choice 1 of the simulation: a robot joins the working ring.
AddRobot(bat) ==
    /\ nextId <= MaxRobots
    /\ \E n \in FreeNodes(Cur) :
          /\ \A m \in FreeNodes(Cur) : n <= m
          /\ Becomes(addRobot(Cur, "ring", bat, n))
          /\ last' = [Completed("addRobot", "ring", "ring", "ring", "x", FALSE,
                                FALSE, << >>, Cur) EXCEPT !.n = bat]

\* main, choice 2: one turn.
Option2 ==
    LET r == option2(Cur)
    IN  /\ Becomes(r.st)
        /\ last' = [Completed("runOneTurn", "ring", "ring", "ring", "x", FALSE,
                              FALSE, << >>, Cur) EXCEPT !.delta = r.ret]

\* main, choice 3: up to n turns.
Option3(n) ==
    LET r == option3(Cur, n)
    IN  /\ Becomes(r.st)
        /\ last' = [Completed("runTurns", "ring", "ring", "ring", "x", FALSE,
                              FALSE, r.calls, Cur) EXCEPT !.n = n]

\* main, choice 4: pause or resume the robot with the given id.
Option4(id) ==
    /\ Becomes(option4(Cur, id))
    /\ last' = [Completed("togglePauseById", "ring", "ring", "ring", "x", FALSE,
                          FALSE, << >>, Cur) EXCEPT !.n = id]

NextSim ==
    \/ nextId <= MaxSimRobots /\ \E bat \in SimBatteries : AddRobot(bat)
    \/ Option2
    \/ \E id \in Ids : Option4(id)

\* The menu of main restricted to choices 1, 2 and 4: robots join at any
\* time, are paused and resumed, and turns are run one by one.
SpecSim == Init /\ [][NextSim]_vars

\* The drain has started: a turn has been run, and from then on no robot is
\* added.
DrainStarted == last.op \in {"runOneTurn", "runTurns"}

NextDrain ==
    \/ ~DrainStarted /\ \E bat \in Batteries : AddRobot(bat)
    \/ Option2
    \/ \E n \in 0..MaxTurns : Option3(n)

\* Robots are added, none is paused, and then turns are run again and again:
\* choice 2 is not put off for ever.
SpecDrain == Init /\ [][NextDrain]_vars /\ WF_vars(Option2)

\* -------------------------------------------------------------------- claims
TypeOK ==
    /\ DOMAIN heap \subseteq Nodes
    /\ \A n \in DOMAIN heap : heap[n].data \in T /\ heap[n].next \in Nodes \cup {NULL}
    /\ head_ \in [Rings -> Nodes \cup {NULL}]
    /\ tail_ \in [Rings -> Nodes \cup {NULL}]
    /\ sz_ \in [Rings -> 0..MaxNodes]
    /\ fault \in BOOLEAN
    /\ nextId = 1

\* C1: in every reachable state each ring is either Empty (head_ and tail_
\* null, sz_ zero) or Populated (head_ and tail_ set, sz_ positive): head_ is
\* null iff tail_ is null iff sz_ = 0.
C1_EmptyOrPopulated ==
    \A r \in Rings :
        /\ (head_[r] = NULL) <=> (tail_[r] = NULL)
        /\ (tail_[r] = NULL) <=> (sz_[r] = 0)

\* A pop_front has just taken the only node of a ring, which went from
\* Populated to Empty, while another ring is Populated.
C1_Witness ==
    /\ last.op = "pop_front" /\ last.ret
    /\ last.pre.sz_[last.self] = 1
    /\ head_[last.self] = NULL /\ tail_[last.self] = NULL /\ sz_[last.self] = 0
    /\ \E r \in Rings : head_[r] # NULL /\ sz_[r] >= 2

\* C2: every non-empty ring is closed (the successor of tail_ is head_), and
\* following next from head_ comes back to head_ after exactly sz_ steps and
\* not before, the sz_ nodes met on the way being pairwise distinct.
C2_RingClosure ==
    \A r \in Rings :
        head_[r] # NULL =>
            /\ Succ(Cur, tail_[r]) = head_[r]
            /\ Nth(Cur, head_[r], sz_[r]) = head_[r]
            /\ \A k \in 1..(sz_[r] - 1) : Nth(Cur, head_[r], k) # head_[r]
            /\ \A i, j \in 0..(sz_[r] - 1) :
                   i # j => Nth(Cur, head_[r], i) # Nth(Cur, head_[r], j)

\* A splitIntoTwo of a ring of three has just filled both output rings,
\* whose sizes come from the formula and not from a count.
C2_Witness ==
    /\ last.op = "splitIntoTwo"
    /\ last.pre.sz_[last.self] = 3
    /\ sz_[last.first] = 2 /\ sz_[last.second] = 1
    /\ Len(NodeSeq(Cur, last.first)) = 2 /\ Len(NodeSeq(Cur, last.second)) = 1

\* C3: in every reachable state no node is reachable from the head_ of two
\* different rings.
C3_ExclusiveOwnership ==
    LET owned == [r \in Rings |-> Reach(Cur, r)]
    IN  \A r1, r2 \in Rings :
            r1 # r2 => owned[r1] \cap owned[r2] = {}

\* A mergeWith has just moved the nodes of one non-empty ring into another
\* non-empty ring, while the third ring holds nodes of its own.
C3_Witness ==
    /\ last.op = "mergeWith"
    /\ last.pre.sz_[last.self] >= 1 /\ last.pre.sz_[last.first] >= 1
    /\ Reach(Cur, last.self) = Reach(last.pre, last.self) \cup Reach(last.pre, last.first)
    /\ \E r \in Rings \ {last.self, last.first} : Reach(Cur, r) # {}

\* What splitIntoTwo(first, second) must have made of state pre: the receiver
\* empty, first holding the first ceil(n/2) elements in order, second the
\* remaining floor(n/2), the cached sizes agreeing.
SplitPost(pre, post, self, first, second) ==
    LET s == Elems(pre, self)
        n == Len(s)
        c == n - (n \div 2)
    IN  /\ post.head_[self] = NULL /\ post.tail_[self] = NULL /\ post.sz_[self] = 0
        /\ Elems(post, first) = SubSeq(s, 1, c)
        /\ post.sz_[first] = c
        /\ Elems(post, second) = SubSeq(s, c + 1, n)
        /\ post.sz_[second] = n \div 2
        /\ Elems(post, first) \o Elems(post, second) = s

\* C4: splitIntoTwo on a ring of n >= 0 elements with sequence s, the three
\* rings being distinct, leaves the receiver empty, outFirst with the first
\* ceil(n/2) elements of s and size ceil(n/2), outSecond with the remaining
\* floor(n/2) elements and size floor(n/2).  Stated of the split the program
\* has just made and of every split it could make next.
C4_SplitHalves ==
    /\ last.op \in {"splitIntoTwo", "option6"} =>
           SplitPost(last.pre, Cur, last.self, last.first, last.second)
    /\ \A self, first, second \in Rings :
           (self # first /\ self # second /\ first # second) =>
               SplitPost(Cur, splitIntoTwo(Cur, self, first, second),
                         self, first, second)

\* Choice 6 has just split a working ring of five into a of three and b of two.
C4_Witness ==
    /\ last.op = "option6"
    /\ last.pre.sz_["ring"] = 5
    /\ sz_["ring"] = 0 /\ sz_["a"] = 3 /\ sz_["b"] = 2
    /\ Elems(Cur, "a") \o Elems(Cur, "b") = Elems(last.pre, "ring")

\* What self.mergeWith(other) must have made of state pre.
MergePost(pre, post, self, other) ==
    LET a == Elems(pre, self)
        b == Elems(pre, other)
    IN  /\ Elems(post, self) = a \o b
        /\ post.sz_[self] = Len(a) + Len(b)
        /\ post.head_[other] = NULL /\ post.tail_[other] = NULL
        /\ post.sz_[other] = 0
        /\ b = << >> => post = pre
        /\ a = << >> => /\ NodeSeq(post, self) = NodeSeq(pre, other)
                        /\ post.heap = pre.heap

\* C5: after receiver.mergeWith(other), the rings being distinct, the receiver
\* holds its sequence followed by that of other and its size is the sum of the
\* two, other is empty with size 0; nothing changes when other was empty, and
\* an empty receiver takes over the nodes of other unchanged.
C5_MergeConcatenates ==
    last.op = "mergeWith" => MergePost(last.pre, Cur, last.self, last.first)

\* A mergeWith has just spliced a non-empty ring after a non-empty receiver.
C5_Witness ==
    /\ last.op = "mergeWith"
    /\ last.pre.sz_[last.self] >= 1 /\ last.pre.sz_[last.first] >= 1
    /\ sz_[last.self] = 3 /\ sz_[last.first] = 0
    /\ Elems(Cur, last.self)
           = Elems(last.pre, last.self) \o Elems(last.pre, last.first)

\* The state after r.splitIntoTwo(a, b); a.mergeWith(b); r.mergeWith(a).
RoundTrip(st, r, a, b) ==
    mergeWith(mergeWith(splitIntoTwo(st, r, a, b), a, b), r, a)

\* C6: splitting r into a and b, merging b into a and a back into r leaves r
\* with the sequence and size it had and a and b empty.  Stated of a choice 7
\* that directly follows a choice 6, and of the three calls made from any
\* reachable state on any three distinct rings.
C6_SplitMergeRoundTrip ==
    /\ (last.op = "option7" /\ last.chained) =>
           /\ Elems(Cur, "ring") = Elems(last.pre, "ring")
           /\ sz_["ring"] = last.pre.sz_["ring"]
           /\ \A o \in {"a", "b"} :
                  head_[o] = NULL /\ tail_[o] = NULL /\ sz_[o] = 0
    /\ \A r, a, b \in Rings :
           (r # a /\ r # b /\ a # b) =>
               LET t == RoundTrip(Cur, r, a, b)
               IN  /\ Elems(t, r) = Elems(Cur, r)
                   /\ t.sz_[r] = Len(Elems(Cur, r))
                   /\ \A o \in {a, b} :
                          t.head_[o] = NULL /\ t.tail_[o] = NULL /\ t.sz_[o] = 0

\* Choice 7 has just followed choice 6 on a working ring of five elements that
\* are not all equal.
C6_Witness ==
    /\ last.op = "option7" /\ last.chained
    /\ last.pre.sz_["ring"] = 5
    /\ sz_["ring"] = 5
    /\ Elems(Cur, "ring")[1] # Elems(Cur, "ring")[4]

\* What append(v), allocating node n, must have made of state pre.
AppendPost(pre, post, self, v) ==
    LET s   == Elems(pre, self)
        ns  == NodeSeq(pre, self)
        ns2 == NodeSeq(post, self)
    IN  /\ Elems(post, self) = s \o <<v>>
        /\ Len(ns2) = Len(ns) + 1
        /\ SubSeq(ns2, 1, Len(ns)) = ns
        /\ post.tail_[self] = ns2[Len(ns2)]
        /\ post.tail_[self] \notin DOMAIN pre.heap
        /\ s # << >> => post.head_[self] = pre.head_[self]
        /\ s = << >> => /\ post.head_[self] = post.tail_[self]
                        /\ Succ(post, post.head_[self]) = post.head_[self]
        /\ post.sz_[self] = pre.sz_[self] + 1
        /\ post.sz_[self] = Len(s) + 1

\* C7: append(v) on a ring with sequence s yields s followed by v: the new
\* node is tail_, head_ is unchanged when s is non-empty, the new node is head_
\* and tail_ and its own successor when s is empty, and sz_ grows by one, so
\* that sz_ is the number of elements appended.
C7_AppendAtTail ==
    last.op \in {"append", "option1"} =>
        AppendPost(last.pre, Cur, last.self, last.v)

\* An append has just added a third element to a ring of two.
C7_Witness ==
    /\ last.op = "append"
    /\ last.pre.sz_[last.self] = 2
    /\ sz_[last.self] = 3
    /\ Elems(Cur, last.self) = Elems(last.pre, last.self) \o <<last.v>>

\* What pop_front(), returning r.ret and leaving state r.st, must have made of
\* state pre.
PopPost(pre, r, self) ==
    LET s == Elems(pre, self)
    IN  /\ s = << >> => ~r.ret
        /\ s # << >> =>
               /\ r.ret
               /\ Elems(r.st, self) = Tail(s)
               /\ r.st.sz_[self] = pre.sz_[self] - 1
               /\ pre.head_[self] \notin DOMAIN r.st.heap
               /\ Len(s) >= 2 => r.st.head_[self] = Succ(pre, pre.head_[self])
               /\ Len(s) = 1 => r.st.head_[self] = NULL /\ r.st.tail_[self] = NULL

\* The ring holding sequence s, Len(s) calls of pop_front each return true and
\* take the elements of s in order, the ring is then empty and one more call
\* returns false.
RECURSIVE Drains(_, _, _)
Drains(st, self, s) ==
    LET r == pop_front(st, self)
    IN  IF s = << >>
        THEN /\ st.head_[self] = NULL /\ st.sz_[self] = 0
             /\ ~r.ret
        ELSE /\ st.head_[self] \in DOMAIN st.heap
             /\ st.sz_[self] = Len(s)
             /\ front(st, self) = Head(s)
             /\ r.ret
             /\ Drains(r.st, self, Tail(s))

\* The state after appending the elements of s, in order, to ring self.
RECURSIVE Appended(_, _, _)
Appended(st, self, s) ==
    IF s = << >> THEN st
    ELSE Appended(append(st, self, Head(s), CHOOSE n \in FreeNodes(st) : TRUE),
                  self, Tail(s))

\* The sequences of at most k elements.
SeqsUpTo(k) == UNION {[1..n -> T] : n \in 0..k}

\* C8: after n appends to an empty ring, n calls of pop_front each return true
\* and remove the elements in the order they were appended (each call drops
\* the head, its successor becomes head_, sz_ goes down by one), the ring is
\* then empty and the next pop_front returns false.  Stated of the pop_front
\* the program has just made, of draining every ring of every reachable
\* state, and of the appends made to a ring of the initial program state.
C8_AppendThenDrain ==
    /\ last.op = "pop_front" =>
           PopPost(last.pre, [st |-> Cur, ret |-> last.ret], last.self)
    /\ \A self \in Rings : Drains(Cur, self, Elems(Cur, self))
    /\ last.op = "init" =>
           \A self \in Rings, s \in SeqsUpTo(MaxSmall) :
               Drains(Appended(Cur, self, s), self, s)

\* A pop_front has just returned true for the last element of a ring that
\* was filled by appends, leaving no node allocated.
C8_Witness ==
    /\ last.op = "pop_front" /\ last.ret
    /\ last.pre.sz_[last.self] = 1
    /\ sz_[last.self] = 0
    /\ heap = << >>

\* C9: pop_front on an empty ring returns false and leaves head_, tail_ and
\* sz_ of every ring, and every node, as they were.
C9_PopFrontOnEmpty ==
    (last.op = "pop_front" /\ last.pre.head_[last.self] = NULL) =>
        ~last.ret /\ Cur = last.pre

\* A pop_front has just been made on an empty ring while another ring holds
\* nodes.
C9_Witness ==
    /\ last.op = "pop_front" /\ ~last.ret
    /\ last.pre.sz_[last.self] = 0
    /\ \E r \in Rings : sz_[r] >= 1

\* What rotate() must have made of state pre.
RotatePost(pre, post, self) ==
    LET s == Elems(pre, self)
    IN  /\ post.sz_ = pre.sz_
        /\ post.heap = pre.heap
        /\ \A r \in Rings \ {self} :
               post.head_[r] = pre.head_[r] /\ post.tail_[r] = pre.tail_[r]
        /\ Len(s) >= 2 => /\ Elems(post, self) = Tail(s) \o <<Head(s)>>
                          /\ post.tail_[self] = pre.head_[self]
                          /\ post.head_[self] = Succ(pre, pre.head_[self])
        /\ Len(s) <= 1 => post = pre

\* The state after reading the front element, pop_front, and append of that
\* element.
PopAppend(st, self) ==
    LET v == front(st, self)
        r == pop_front(st, self)
    IN  append(r.st, self, v, CHOOSE n \in FreeNodes(r.st) : TRUE)

\* Ring self has the same sequence in sr and in sp, and still has after each
\* of k further steps, a step being one rotate in sr and one PopAppend in sp.
RECURSIVE SameUnderRotation(_, _, _, _)
SameUnderRotation(sr, sp, self, k) ==
    /\ Elems(sr, self) = Elems(sp, self)
    /\ k > 0 => SameUnderRotation(rotate(sr, self), PopAppend(sp, self), self, k - 1)

\* C10: rotate changes neither sz_ nor any successor link; on a ring of two
\* or more with sequence s it yields Tail(s) followed by Head(s), on a smaller
\* ring it changes nothing; and on a non-empty ring k rotates give the same
\* sequence as k repetitions of reading the front, pop_front and append of
\* that element, for every k up to MaxRot.
C10_RotateMovesHeadToTail ==
    /\ last.op = "rotate" => RotatePost(last.pre, Cur, last.self)
    /\ \A self \in Rings :
           head_[self] # NULL => SameUnderRotation(Cur, Cur, self, MaxRot)

\* A rotate has just moved the head of a ring of three, whose first two
\* elements differ, to its tail.
C10_Witness ==
    /\ last.op = "rotate"
    /\ last.pre.sz_[last.self] = 3
    /\ head_[last.self] # last.pre.head_[last.self]
    /\ tail_[last.self] = last.pre.head_[last.self]
    /\ Elems(Cur, last.self) # Elems(last.pre, last.self)

\* What display() writes for a ring holding the sequence s.
Shown(s) ==
    IF s = << >>
    THEN <<"[] (empty)">>
    ELSE <<"[">>
         \o [k \in 1..(2 * Len(s) - 1) |->
                IF k % 2 = 1 THEN s[(k + 1) \div 2] ELSE " -> "]
         \o <<"] (circular)">>

\* C11: forEach calls the visitor exactly sz_ times, once per element, in
\* head-to-tail order starting at head_, and not at all on an empty ring;
\* display writes the same elements in the same order; neither changes
\* head_, tail_, sz_ or any successor link.
C11_TraversalVisitsEachOnce ==
    /\ last.op = "forEach" =>
          /\ Len(last.out) = last.pre.sz_[last.self]
          /\ last.out = Elems(last.pre, last.self)
          /\ (last.pre.head_[last.self] = NULL => last.out = << >>)
          /\ Cur = last.pre
    /\ last.op = "display" =>
          /\ last.out = Shown(Elems(last.pre, last.self))
          /\ SelectSeq(last.out, LAMBDA e : e \in T) = Elems(last.pre, last.self)
          /\ Cur = last.pre

C11_Witness ==
    /\ last.op = "forEach"
    /\ last.out = <<"x", "y", "x">>
    /\ head_[last.self] # tail_[last.self]

\* clear() on self took the state pre to the state post.
ClearPost(pre, post, self) ==
    /\ DOMAIN post.heap = DOMAIN pre.heap \ Reach(pre, self)
    /\ Cardinality(DOMAIN pre.heap) - Cardinality(DOMAIN post.heap)
           = pre.sz_[self]
    /\ \A m \in DOMAIN post.heap : post.heap[m] = pre.heap[m]
    /\ post.head_[self] = NULL /\ post.tail_[self] = NULL /\ post.sz_[self] = 0
    /\ \A r \in Rings \ {self} :
          /\ post.head_[r] = pre.head_[r]
          /\ post.tail_[r] = pre.tail_[r]
          /\ post.sz_[r] = pre.sz_[r]
    /\ (pre.head_[self] = NULL => post = pre)

\* C12: clear on a ring of n >= 0 nodes releases exactly those n nodes and
\* leaves the ring Empty; on an empty ring it changes nothing, so a second
\* clear right after the first changes nothing.  The destructor is a clear.
C12_ClearReleasesAll ==
    last.op \in {"clear", "~LinkedList"} =>
        /\ ClearPost(last.pre, Cur, last.self)
        /\ clear(Cur, last.self) = Cur
        /\ clear(clear(last.pre, last.self), last.self) = clear(last.pre, last.self)

C12_Witness ==
    /\ last.op = "clear"
    /\ last.pre.sz_[last.self] = MaxSmall
    /\ heap = << >>

\* The rings that have not been destroyed.
Alive ==
    IF Destroyed("ring") THEN {}
    ELSE IF Destroyed("a") THEN {"ring"}
    ELSE IF Destroyed("b") THEN {"ring", "a"}
    ELSE Rings

\* The nodes the completed call released and the nodes it created.
Released == DOMAIN last.pre.heap \ DOMAIN heap

Created == DOMAIN heap \ DOMAIN last.pre.heap

\* C13: over any sequence of operations on distinct rings followed by the
\* destruction of every ring, every node created by append is released
\* exactly once: no node is released twice, none is left allocated once
\* every ring is destroyed, no released node is reachable from a head_, and
\* nodes are released by pop_front, clear, the destructor and the clearing
\* of the two output rings of splitIntoTwo only, mergeWith and the transfer
\* of nodes by splitIntoTwo releasing none.
C13_NodeLifecycle ==
    /\ ~fault
    /\ \A r \in Rings : Reach(Cur, r) \subseteq DOMAIN heap
    /\ DOMAIN heap = UNION {Reach(Cur, r) : r \in Alive}
    /\ (Destroyed("ring") => heap = << >>)
    /\ (Created # {} => last.op = "append" /\ Cardinality(Created) = 1)
    /\ (Released # {} =>
          last.op \in {"pop_front", "clear", "~LinkedList", "splitIntoTwo"})
    /\ (last.op = "mergeWith" => DOMAIN heap = DOMAIN last.pre.heap)
    /\ (last.op = "splitIntoTwo" =>
          /\ Released = Reach(last.pre, last.first) \cup Reach(last.pre, last.second)
          /\ Reach(last.pre, last.self)
                = Reach(Cur, last.first) \cup Reach(Cur, last.second))
    /\ (last.op = "pop_front" =>
          Released = IF last.ret THEN {last.pre.head_[last.self]} ELSE {})
    /\ (last.op \in {"clear", "~LinkedList"} =>
          Released = Reach(last.pre, last.self))

C13_Witness ==
    /\ Destroyed("ring")
    /\ heap = << >>
    /\ last.pre.sz_["ring"] >= 2

\* C14: splitIntoTwo discards whatever its two output rings held before the
\* call: those nodes are released, and afterwards the output rings contain
\* only nodes that belonged to the receiver; on an empty receiver both
\* output rings end empty.
C14_SplitDiscardsOutputs ==
    last.op = "splitIntoTwo" =>
        LET pre == last.pre
            old == Reach(pre, last.first) \cup Reach(pre, last.second)
        IN  /\ old \cap DOMAIN heap = {}
            /\ Reach(Cur, last.first) \cup Reach(Cur, last.second)
                  \subseteq Reach(pre, last.self)
            /\ \A n \in Reach(Cur, last.first) \cup Reach(Cur, last.second) :
                  heap[n].data = pre.heap[n].data
            /\ (pre.head_[last.self] = NULL =>
                  \A r \in {last.first, last.second} :
                      head_[r] = NULL /\ tail_[r] = NULL /\ sz_[r] = 0)

C14_Witness ==
    /\ last.op = "splitIntoTwo"
    /\ last.pre.sz_[last.first] >= 1
    /\ last.pre.sz_[last.second] >= 1
    /\ last.pre.sz_[last.self] = 0
    /\ heap = << >>

\* The output rings held nodes and the receiver had nodes to give them.
C14_WitnessTransfer ==
    /\ last.op = "splitIntoTwo"
    /\ last.pre.sz_[last.first] >= 1
    /\ last.pre.sz_[last.self] >= 2
    /\ sz_[last.first] >= 1 /\ sz_[last.second] >= 1

\* <<slow, fast>> after k executions of the body of the slow/fast loop.
RECURSIVE split_after(_, _, _)
split_after(st, self, k) ==
    IF k = 0
    THEN <<st.head_[self], st.head_[self]>>
    ELSE LET w == split_after(st, self, k - 1)
         IN  split_step(st, w[1], w[2])

\* The slow/fast loop on ring self leaves after exactly k executions of its
\* body.
split_exits(st, self, k) ==
    /\ ~split_cond(st, self, split_after(st, self, k)[2])
    /\ \A j \in 0..(k - 1) : split_cond(st, self, split_after(st, self, j)[2])

\* A call returned a program state.
Returned(st) ==
    /\ DOMAIN st.heap \subseteq Nodes
    /\ st.head_ \in [Rings -> Nodes \cup {NULL}]
    /\ st.tail_ \in [Rings -> Nodes \cup {NULL}]
    /\ st.sz_ \in [Rings -> 0..MaxNodes]

\* C15: every public operation terminates on rings that satisfy the
\* invariants; the slow/fast loop of splitIntoTwo, bounded by the comparison
\* with the original head and not by the cached size, exits for every
\* n >= 2, odd or even, with slow on the node at position ceil(n/2)
\* (1-based) and, after the adjustment for an even length, fast on the
\* original tail.
C15_SplitWalkTerminates ==
    \A r \in Rings :
        /\ sz_[r] >= 2 =>
              LET n == sz_[r]
                  w == split_walk(Cur, r, head_[r], head_[r])
              IN  /\ \E k \in 0..n :
                        split_exits(Cur, r, k) /\ w = split_after(Cur, r, k)
                  /\ w[1] = Nth(Cur, head_[r], ((n + 1) \div 2) - 1)
                  /\ split_adjust(Cur, r, w[2]) = tail_[r]
        /\ Returned(pop_front(Cur, r).st)
        /\ Returned(rotate(Cur, r))
        /\ Returned(clear(Cur, r))
        /\ Len(forEach(Cur, r)) = sz_[r]
        /\ Len(display(Cur, r)) >= 1
        /\ \A n \in FreeNodes(Cur) : Returned(append(Cur, r, "x", n))
        /\ \A o \in Rings \ {r} : Returned(mergeWith(Cur, r, o))
        /\ \A o, p \in Rings \ {r} :
              o # p => Returned(splitIntoTwo(Cur, r, o, p))

C15_Witness ==
    /\ last.op = "option6"
    /\ last.pre.sz_["ring"] = MaxNodes
    /\ split_exits(last.pre, "ring", (MaxNodes - 1) \div 2)
    /\ sz_["a"] + sz_["b"] = MaxNodes

\* An even length: the loop leaves fast one node before the tail.
C15_WitnessEven ==
    /\ sz_["ring"] = 4
    /\ split_walk(Cur, "ring", head_["ring"], head_["ring"])[2] # tail_["ring"]

\* C16: append is atomic with respect to allocation failure: when creating
\* the node fails, head_, tail_, sz_ and every successor link are exactly as
\* before the call; when it succeeds the ring is fully updated; a call ends
\* in one of these two states and in no other.
C16_AppendAtomic ==
    /\ last.op = "append throws" => Cur = last.pre
    /\ last.op = "append" => AppendPost(last.pre, Cur, last.self, last.v)
    /\ last.op \in {"append", "append throws"} =>
          \/ Cur = last.pre
          \/ /\ sz_[last.self] = last.pre.sz_[last.self] + 1
             /\ Elems(Cur, last.self) = Elems(last.pre, last.self) \o <<last.v>>
             /\ heap[tail_[last.self]].next = head_[last.self]

C16_Witness ==
    /\ last.op = "append throws"
    /\ FreeNodes(Cur) \cap SmallNodes = {}
    /\ sz_[last.self] >= 2
    /\ Elems(Cur, last.self) = Elems(last.pre, last.self)

\* The nodes owned by some ring.
Owned(st) == UNION {Reach(st, r) : r \in Rings}

\* The completed call had ring arguments that are the same ring.
Aliased ==
    \/ last.op = "mergeWith" /\ last.self = last.first
    \/ /\ last.op = "splitIntoTwo"
       /\ \/ last.self = last.first
          \/ last.self = last.second
          \/ last.first = last.second

\* Invariants 1 and 2 of ring r: empty with nothing cached, or closed with
\* sz_ nodes between head_ and tail_.
RingOK(st, r) ==
    IF st.head_[r] = NULL
    THEN st.tail_[r] = NULL /\ st.sz_[r] = 0
    ELSE /\ st.tail_[r] \in DOMAIN st.heap
         /\ st.heap[st.tail_[r]].next = st.head_[r]
         /\ Cardinality(Reach(st, r)) = st.sz_[r]
         /\ Nth(st, st.head_[r], st.sz_[r]) = st.head_[r]

\* C17: no node is lost when ring arguments alias: after x.mergeWith(x),
\* r.splitIntoTwo(y, y), r.splitIntoTwo(r, y) or r.splitIntoTwo(y, r) on
\* non-empty rings, every node owned by some ring before the call is either
\* reachable from the head_ of exactly one ring, whose invariants 1 and 2
\* hold, or released; none is left allocated and unreachable.
C17_NoNodeLostOnAlias ==
    (Aliased /\ last.pre.head_[last.self] # NULL) =>
        \A n \in Owned(last.pre) :
            \/ n \notin DOMAIN heap
            \/ /\ Cardinality({r \in Rings : n \in Reach(Cur, r)}) = 1
               /\ \A r \in Rings : n \in Reach(Cur, r) => RingOK(Cur, r)

\* The same, for the calls where an output ring of splitIntoTwo is the
\* receiver: clearing the output ring releases every node of the receiver.
C17_SplitIntoReceiver ==
    (Aliased /\ last.op = "splitIntoTwo"
             /\ (last.self = last.first \/ last.self = last.second)) =>
        /\ DOMAIN heap = DOMAIN last.pre.heap
                           \ (Reach(last.pre, last.self)
                                 \cup Reach(last.pre, last.first)
                                 \cup Reach(last.pre, last.second))
        /\ \A r \in {last.self, last.first, last.second} : head_[r] = NULL
        /\ \A r \in Rings : RingOK(Cur, r)

\* x.mergeWith(x) on a non-empty ring: x ends empty, its nodes allocated.
C17_MergeSelfLeaks ==
    /\ last.op = "mergeWith" /\ last.self = last.first
    /\ last.pre.sz_[last.self] >= 1
    /\ head_[last.self] = NULL
    /\ Reach(last.pre, last.self) \subseteq DOMAIN heap
    /\ Reach(last.pre, last.self) \cap Owned(Cur) = {}

\* r.splitIntoTwo(y, y) on two nodes or more: the first half is allocated
\* and owned by no ring.
C17_SplitSameLeaks ==
    /\ last.op = "splitIntoTwo" /\ last.first = last.second
    /\ last.self # last.first
    /\ last.pre.sz_[last.self] >= 2
    /\ last.pre.head_[last.self] \in DOMAIN heap \ Owned(Cur)

\* runOneTurn on ring took the state pre to the state post and returned ret.
TurnPost(pre, post, ring, ret) ==
    LET robots == Elems(pre, ring)
    IN  /\ \A r \in Rings \ {ring} :
              /\ post.head_[r] = pre.head_[r]
              /\ post.tail_[r] = pre.tail_[r]
              /\ post.sz_[r] = pre.sz_[r]
        /\ post.sz_[ring] = Len(Elems(post, ring))
        /\ IF robots = << >>
           THEN ret = 0 /\ post = pre
           ELSE LET r == robots[1]
                    rest == Tail(robots)
                IN  /\ ret \in {1, 4}
                    /\ IF r.paused
                       THEN ret = 1 /\ Elems(post, ring) = rest \o <<r>>
                       ELSE IF r.battery - r.drain <= 0
                       THEN ret = 4 /\ Elems(post, ring) = rest
                       ELSE /\ ret = 1
                            /\ Elems(post, ring)
                                 = rest \o <<[r EXCEPT !.battery = @ - r.drain]>>

\* C18: runOneTurn on a non-empty ring processes only the head robot and
\* returns 1 or 4: a paused head is not drained and goes to the tail (1); an
\* unpaused head is drained by its drain and then removed without any
\* rotation if its battery is <= 0 (4), else goes to the tail (1).  On an
\* empty ring it returns 0 and changes nothing.  No other robot changes.
C18_RunOneTurn ==
    last.op = "runOneTurn" => TurnPost(last.pre, Cur, last.self, last.delta)

C18_Witness ==
    /\ last.op = "runOneTurn"
    /\ last.delta = 4
    /\ last.pre.sz_["ring"] = MaxSimRobots
    /\ \E i \in 1..Len(Elems(Cur, "ring")) : Elems(Cur, "ring")[i].paused

\* A paused head is skipped.
C18_WitnessPaused ==
    /\ last.op = "runOneTurn"
    /\ last.delta = 1
    /\ last.pre.sz_["ring"] >= 2
    /\ Elems(last.pre, "ring")[1].paused

\* The state after k calls of runOneTurn on the working ring.
RECURSIVE Turns(_, _)
Turns(st, k) == IF k = 0 THEN st ELSE runOneTurn(Turns(st, k - 1), "ring").st

\* The ids of the robots of a ring, head first.
IdsOf(st, ring) ==
    LET robots == Elems(st, ring)
    IN  [i \in 1..Len(robots) |-> robots[i].id]

\* The number of turns a ring of unpaused robots of drain 1 still takes.
RECURSIVE TurnsLeft(_)
TurnsLeft(robots) ==
    IF robots = << >> THEN 0
    ELSE (IF robots[1].battery >= 1 THEN robots[1].battery ELSE 1)
         + TurnsLeft(Tail(robots))

\* What holds of the turns run so far.
DrainSafe ==
    /\ \A i, j \in 1..Len(IdsOf(Cur, "ring")) :
          i # j => IdsOf(Cur, "ring")[i] # IdsOf(Cur, "ring")[j]
    /\ \A i \in 1..Len(Elems(Cur, "ring")) :
          ~Elems(Cur, "ring")[i].paused /\ Elems(Cur, "ring")[i].drain >= 1
    /\ last.op = "runOneTurn" /\ last.pre.sz_["ring"] > 0 =>
          /\ IdsOf(Cur, "ring")
                = Tail(IdsOf(last.pre, "ring"))
                    \o (IF last.delta = 4 THEN << >>
                        ELSE <<IdsOf(last.pre, "ring")[1]>>)
          /\ TurnsLeft(Elems(Cur, "ring"))
                = TurnsLeft(Elems(last.pre, "ring")) - 1
    /\ last.op = "runTurns" =>
          LET calls == last.out
              made == Len(calls)
          IN  /\ made <= last.n
              /\ \A k \in 1..made :
                    /\ calls[k].size > 0
                    /\ calls[k].ret \in {1, 4}
                    /\ calls[k].size = Turns(last.pre, k - 1).sz_["ring"]
                    /\ calls[k].id = IdsOf(Turns(last.pre, k - 1), "ring")[1]
              /\ Cur = Turns(last.pre, made)
              /\ (made < last.n => sz_["ring"] = 0)
              /\ \A k \in 0..(made - 1) : Turns(last.pre, k).sz_["ring"] > 0
              /\ last.pre.sz_["ring"] - sz_["ring"]
                    = Cardinality({k \in 1..made : calls[k].ret = 4})
              /\ TurnsLeft(Elems(Cur, "ring"))
                    = TurnsLeft(Elems(last.pre, "ring")) - made

\* C19: round-robin drain eventually empties the ring: with no robot paused,
\* every drain >= 1 and no robot added, running turns again and again
\* reaches an empty ring, each robot being removed exactly once and robots
\* getting their turns in strict ring order; the loop of "Run N turns" stops
\* as soon as the ring is empty and never calls runOneTurn on an empty ring.
C19_DrainEmptiesRing ==
    /\ []DrainSafe
    /\ (DrainStarted ~> (sz_["ring"] = 0))

C19_Witness ==
    /\ last.op = "runTurns"
    /\ last.pre.sz_["ring"] >= 2
    /\ Len(last.out) >= 2
    /\ Len(last.out) < last.n
    /\ sz_["ring"] = 0
    /\ heap = << >>

\* The sequence s with the paused flag of the robot with the given id turned
\* over.
Toggled(s, id) ==
    [i \in 1..Len(s) |->
        IF s[i].id = id THEN [s[i] EXCEPT !.paused = ~@] ELSE s[i]]

\* The sequence s started k places further on.
RotatedBy(s, k) ==
    [i \in 1..Len(s) |-> s[((i + k - 1) % Len(s)) + 1]]

\* C20: togglePauseById(ring, id) changes nothing except the paused flag of
\* the robot with the given id: the size of the ring and its head-to-tail
\* order (which robot is at the head) are the same after the call as before,
\* whether the id is found at the head, found elsewhere, or not found.
C20_ToggleKeepsOrder ==
    last.op = "togglePauseById" =>
        /\ sz_["ring"] = last.pre.sz_["ring"]
        /\ Elems(Cur, "ring") = Toggled(Elems(last.pre, "ring"), last.n)

\* What the code does: the ring is left rotated so that the robot found is
\* at the head; it keeps its order only when that robot was at the head
\* already or when no robot has the id.
C20_ToggleRotatesToFound ==
    last.op = "togglePauseById" =>
        LET s == Elems(last.pre, "ring")
            at == {i \in 1..Len(s) : s[i].id = last.n}
        IN  /\ sz_["ring"] = last.pre.sz_["ring"]
            /\ IF at = {}
               THEN Elems(Cur, "ring") = s
               ELSE \E i \in at :
                       Elems(Cur, "ring") = RotatedBy(Toggled(s, last.n), i - 1)

\* The id is found away from the head: the robot found is the head now.
C20_FoundElsewhere ==
    /\ last.op = "togglePauseById"
    /\ last.pre.sz_["ring"] >= 2
    /\ Elems(last.pre, "ring")[1].id # last.n
    /\ Elems(Cur, "ring")[1].id = last.n
    /\ Elems(Cur, "ring")[1].paused

====
